---- MODULE Spec2Model ----
(***************************************************************************)
(* A model of librelaxisloader (src/relaxisloader.c): a read-only accessor *)
(* for RelaxIS archives kept in an SQLite file.                            *)
(*                                                                         *)
(* The archive is the content of the tables the loaders query; it is       *)
(* chosen in Init and never changes (the file is opened read-only).  The   *)
(* state of the program is the handle (struct rlxfile: error, db), the     *)
(* backend resources it holds (connection, prepared statements), the live  *)
(* heap allocations the library made, and the result of the last call.     *)
(*                                                                         *)
(* Cell contents are assumed well formed (the sscanf/strptime asserts of   *)
(* the loaders never fire); rows are identified by their ids and counted.  *)
(***************************************************************************)
EXTENDS Integers, Sequences, FiniteSets, TLC

\* ------------------------------------------------------------- bounds
\* Largest project id of an archive, and of a project argument.
MaxProjects == 2
\* Largest number of Files rows of an archive (ids 1..n).
MaxFiles == 2
\* Largest number of rows per spectrum in Datapoints, FileInformation and
\* Fitparameters.
MaxRows == 1
\* Largest number of prepared statements left unfinalized in one session.
MaxStmts == 1
\* Largest number of Fitparameters rows of a spectrum where the growth of
\* the output buffer is followed: past the second doubling.
MaxFitRows == 17

\* ---------------------------------------------------- program constants
RLX_ERR_SUCESS == 0
RLX_ERR_NO_ENT == -100
RLX_ERR_NON_EXIST_SPECTRA == -102
RLX_ERR_OOM == -103
RLX_ERR_FMT == -104

\* Result codes of the SQLite library, as its header numbers them.
SQLITE_OK == 0
SQLITE_ERROR == 1
SQLITE_IOERR == 10
SQLITE_ROW == 100
SQLITE_DONE == 101

VARIABLES
    archive,    \* the tables of the file on disk
    handle,     \* what the caller holds: "none", "valid", "null", "closed";
                \* "aborted" once the process was killed
    error,      \* struct rlxfile, field error
    errstr,     \* the caller's const char* error of rlx_open_file
    dbOpen,     \* the sqlite3 connection object exists and is not closed
    stmts,      \* prepared statements not yet finalized
    heap,       \* live allocations made by the library
    last        \* the last call: its arguments and what it returned

vars == <<archive, handle, error, errstr, dbOpen, stmts, heap, last>>

\* An allocation: its kind, the spectrum it belongs to (0 when there is
\* one result only) and its index in an array (0 when it is not an entry).
Alloc(kind, k, i) == <<kind, k, i>>

\* ------------------------------------------------------------ archive
ProjectIds == 1..MaxProjects
\* Spectrum ids a caller may ask for: the ids of Files and 0, the first
\* index rlx_get_all_spectra loads.
SpectraIds == 0..MaxFiles

\* An archive with nProj projects, nFiles spectra assigned to projects by
\* files, and dp, md, fp rows per spectrum in the three per-spectrum tables.
\* FileInformation exists from format version 2 on.
MkArchive(hasProps, props, nProj, files, dp, md, fp) ==
    [hasProperties      |-> hasProps,
     Properties         |-> props,
     Projects           |-> 1..nProj,
     Files              |-> files,
     Datapoints         |-> [f \in DOMAIN files |-> dp],
     hasFileInformation |-> (props = <<2>>),
     FileInformation    |-> [f \in DOMAIN files |-> IF props = <<2>> THEN md ELSE 0],
     Fitparameters      |-> [f \in DOMAIN files |-> fp]]

\* Files whose format gate rejects them: no Properties table, no
\* DatabaseFormat row, an unrecognized version.  Nothing else of them is read.
RejectedArchives ==
    {MkArchive(FALSE, <<>>, 0, <<>>, 0, 0, 0),
     MkArchive(TRUE, <<>>, 0, <<>>, 0, 0, 0),
     MkArchive(TRUE, <<3>>, 0, <<>>, 0, 0, 0)}

\* Files of a recognized version: every spectrum belongs to a project of
\* the archive.
AcceptedArchives ==
    UNION {UNION {{MkArchive(TRUE, <<v>>, nProj, files, dp, md, fp) :
                      files \in [1..n -> 1..nProj]} :
                  n \in 0..MaxFiles} :
           <<v, nProj, dp, md, fp>> \in
               {1, 2} \X (0..MaxProjects) \X (0..MaxRows) \X (0..MaxRows) \X (0..MaxRows)}

Archives == RejectedArchives \cup AcceptedArchives

\* --------------------------------------------------- the last call
\* op: the function called; null: it returned NULL; project, id, fault:
\* its inputs; written: it stored to *length; length: what it stored; ids:
\* the ids of the returned array's entries; spectra: the returned spectra;
\* params: the returned fit parameters; overrun: it stored an entry past
\* the end of its output buffer; arrays: what rlx_get_float_arrays or
\* rlx_get_double_arrays made of the returned spectrum.  After a release,
\* released: the function whose result was released; frees: the number of
\* pointers rlx_spectra_free passed to free(); badfree: one of them was
\* not live.
NoArrays == [precision |-> "none", ret |-> 0, fault |-> 0, copied |-> 0]

NoCall ==
    [op |-> "none", null |-> TRUE, project |-> 0, id |-> 0, fault |-> 0,
     written |-> FALSE, length |-> 0, ids |-> <<>>, spectra |-> <<>>,
     params |-> <<>>, overrun |-> FALSE, arrays |-> NoArrays,
     released |-> "none", frees |-> 0, badfree |-> FALSE]

\* The rlxfile struct itself.
FileAllocs == {Alloc("rlxfile", 0, 0)}

\* The caller holds no result it still has to release, and no allocation of
\* an earlier result was left behind.
Idle == (last.null \/ last.op \in {"open", "free"}) /\ heap \subseteq FileAllocs

\* ------------------------------------------------------------ backend
\* sqlite3_get_table: on an error nothing is returned; the column count of
\* a result is recorded with its first row, so an empty result reports 0
\* columns whatever the query selects.
sqlite3_get_table(fault, exists, nrows, width) ==
    IF fault THEN [ret |-> SQLITE_IOERR, rows |-> 0, cols |-> 0]
    ELSE IF ~exists THEN [ret |-> SQLITE_ERROR, rows |-> 0, cols |-> 0]
    ELSE [ret |-> SQLITE_OK, rows |-> nrows,
          cols |-> IF nrows = 0 THEN 0 ELSE width]

\* ------------------------------------------------------- rlx_open_file
\* The outcome of rlx_open_file on the archive; fault 1 makes
\* sqlite3_open_v2 fail, fault 2 makes sqlite3_step fail.
\* sqlite3_column_int of a statement with no current row is 0.
OpenOutcome(a, fault) ==
    LET step == IF fault = 2 THEN SQLITE_IOERR
                ELSE IF Len(a.Properties) = 0 THEN SQLITE_DONE
                ELSE SQLITE_ROW
        column_count == 1
        version == IF step = SQLITE_ROW THEN a.Properties[1] ELSE 0
    IN  IF fault = 1
        THEN [ret |-> "null", file |-> FALSE, stmt |-> 0,
              errstr |-> "sqlite3_errstr"]
        ELSE IF ~a.hasProperties
        THEN [ret |-> "null", file |-> TRUE, stmt |-> 0,
              errstr |-> "Unable to read file version"]
        ELSE IF (step /= SQLITE_OK /\ step /= SQLITE_DONE /\ step /= SQLITE_ROW)
                \/ column_count /= 1
        THEN [ret |-> "null", file |-> TRUE, stmt |-> 1,
              errstr |-> "Unable to read file version, field missing"]
        ELSE IF version /= 1 /\ version /= 2
        THEN [ret |-> "null", file |-> TRUE, stmt |-> 1,
              errstr |-> "Unsupported file version"]
        ELSE [ret |-> "valid", file |-> TRUE, stmt |-> 0, errstr |-> "NULL"]

rlx_open_file(fault) ==
    /\ handle = "none"
    /\ LET o == OpenOutcome(archive, fault)
       IN  /\ handle' = o.ret
           /\ errstr' = o.errstr
           /\ heap' = IF o.file THEN heap \cup {Alloc("rlxfile", 0, 0)} ELSE heap
           /\ stmts' = stmts + o.stmt
    \* sqlite3_open_v2 leaves a connection object behind also when it fails;
    \* only sqlite3_close releases it.
    /\ dbOpen' = TRUE
    \* calloc zeroes the error field.
    /\ error' = 0
    /\ last' = [NoCall EXCEPT !.op = "open", !.null = (handle' = "null"),
                              !.fault = fault]
    /\ UNCHANGED archive

\* ------------------------------------------------------ rlx_close_file
\* sqlite3_close refuses (SQLITE_BUSY) while a statement is unfinalized.
rlx_close_file ==
    /\ handle = "valid"
    /\ last.null \/ last.op \in {"open", "free"}
    /\ handle' = "closed"
    /\ dbOpen' = (stmts > 0)
    /\ heap' = heap \ {Alloc("rlxfile", 0, 0)}
    /\ last' = [NoCall EXCEPT !.op = "close"]
    /\ UNCHANGED <<archive, error, errstr, stmts>>

\* ------------------------------------------------------------ results
\* What a loader hands back: the returned pointer (null), the error field
\* of the handle after the call, the store to *length, the entries of the
\* returned array, the allocations it made and did not release, and the
\* statements it prepared and did not finalize.  freed: on its way it
\* passed an error message of sqlite3_get_table to free().
NullResult ==
    [null |-> TRUE, error |-> 0, written |-> FALSE, length |-> 0,
     ids |-> <<>>, spectra |-> <<>>, params |-> <<>>, allocs |-> {},
     stmt |-> 0, freed |-> FALSE, overrun |-> FALSE]

\* The rows of a per-spectrum table whose file_id is id.
RowsOf(table, id) == IF id \in DOMAIN table THEN table[id] ELSE 0

\* ---------------------------------------------------- rlx_get_projects
\* fault 1: the query fails in the backend; fault 2: malloc of the array
\* fails.  The i-th project struct holds the id of the i-th row.
rlx_get_projects_ret(a, err, fault) ==
    LET t == sqlite3_get_table(fault = 1, TRUE, Cardinality(a.Projects), 3)
        rows == t.rows + 1
    IN  IF t.ret /= SQLITE_OK
        THEN [NullResult EXCEPT !.error = t.ret, !.written = TRUE, !.length = 0,
                                !.freed = TRUE]
        ELSE IF t.cols /= 3
        THEN [NullResult EXCEPT !.error = RLX_ERR_FMT]
        ELSE IF fault = 2
        THEN [NullResult EXCEPT !.error = RLX_ERR_OOM]
        ELSE [NullResult EXCEPT
                 !.null = FALSE, !.error = err,
                 !.written = TRUE, !.length = rows - 1,
                 !.ids = [i \in 1..(rows - 1) |-> i],
                 !.allocs = {Alloc("projects", 0, 0)}
                            \cup {Alloc("project", 0, i) : i \in 1..(rows - 1)}
                            \cup {Alloc("name", 0, i) : i \in 1..(rows - 1)}]

\* ------------------------------------------------- rlx_get_spectra_ids
\* The query without its WHERE clause: the ids of all spectra.
FilesOfAnyProject(a, p) == [i \in 1..Len(a.Files) |-> i]

\* SELECT ID FROM Files where project_id=p: the ids in row order.
FilesOfProject(a, p) ==
    SelectSeq([i \in 1..Len(a.Files) |-> i], LAMBDA i : a.Files[i] = p)

\* The listing with the one-column test ahead of the test for an empty
\* result.
rlx_get_spectra_ids_shape_first(a, err, p, fault) ==
    LET found == FilesOfProject(a, p)
        t == sqlite3_get_table(fault = 1, TRUE, Len(found), 1)
        rows == t.rows + 1
        none == [NullResult EXCEPT !.written = TRUE, !.length = 0]
    IN  IF t.ret /= SQLITE_OK THEN [none EXCEPT !.error = t.ret, !.freed = TRUE]
        ELSE IF t.cols /= 1 THEN [none EXCEPT !.error = RLX_ERR_FMT]
        ELSE IF rows < 2 THEN [none EXCEPT !.error = RLX_ERR_NO_ENT]
        ELSE [none EXCEPT !.null = FALSE, !.error = err,
                          !.length = rows - 1,
                          !.ids = [i \in 1..(rows - 1) |-> found[i]],
                          !.allocs = {Alloc("ids", 0, 0)}]

\* fault 1: the query fails in the backend.
rlx_get_spectra_ids_ret(a, err, p, fault) ==
    LET found == FilesOfProject(a, p)
        t == sqlite3_get_table(fault = 1, TRUE, Len(found), 1)
        rows == t.rows + 1
        none == [NullResult EXCEPT !.written = TRUE, !.length = 0]
    IN  IF t.ret /= SQLITE_OK THEN [none EXCEPT !.error = t.ret, !.freed = TRUE]
        ELSE IF t.cols = 0 THEN [none EXCEPT !.error = RLX_ERR_NO_ENT]
        ELSE IF t.cols /= 1 THEN [none EXCEPT !.error = RLX_ERR_FMT]
        ELSE IF rows < 2 THEN [none EXCEPT !.error = RLX_ERR_NO_ENT]
        ELSE [none EXCEPT !.null = FALSE, !.error = err,
                          !.length = rows - 1,
                          !.ids = [i \in 1..(rows - 1) |-> found[i]],
                          !.allocs = {Alloc("ids", 0, 0)}]

\* -------------------------------------------------- rlx_get_datapoints
\* prior is what *length holds before the call; a path that does not store
\* to it leaves it there.
rlx_get_datapoints(a, err, id, fault, prior) ==
    LET t == sqlite3_get_table(fault, TRUE, RowsOf(a.Datapoints, id), 3)
        rows == t.rows + 1
    IN  IF t.ret /= SQLITE_OK
        THEN [null |-> TRUE, error |-> t.ret, length |-> 0, freed |-> TRUE]
        ELSE IF t.cols /= 3
        THEN [null |-> TRUE, error |-> RLX_ERR_FMT, length |-> prior,
              freed |-> FALSE]
        ELSE IF rows < 2
        THEN [null |-> TRUE, error |-> RLX_ERR_NO_ENT, length |-> prior,
              freed |-> FALSE]
        ELSE [null |-> FALSE, error |-> err, length |-> rows - 1,
              freed |-> FALSE]

\* ---------------------------------------------------- rlx_get_metadata
rlx_get_metadata(a, err, id, fault) ==
    LET t == sqlite3_get_table(fault, a.hasFileInformation,
                               RowsOf(a.FileInformation, id), 2)
        rows == t.rows + 1
    IN  IF t.ret /= SQLITE_OK
        THEN [null |-> TRUE, error |-> t.ret, length |-> 0, freed |-> TRUE]
        ELSE IF t.cols /= 2
        THEN [null |-> TRUE, error |-> RLX_ERR_FMT, length |-> 0,
              freed |-> FALSE]
        ELSE [null |-> FALSE, error |-> err, length |-> rows - 1,
              freed |-> FALSE]

\* ----------------------------------------------------- rlx_get_spectra
\* A struct rlx_spectra: dpNull and mdNull say that datapoints and
\* metadata are NULL.
NullSpectra ==
    [null |-> TRUE, id |-> 0, project_id |-> 0, dpNull |-> TRUE,
     length |-> 0, mdNull |-> TRUE, metadata_count |-> 0]

\* The lookup by ID alone, without the project_id condition.
FilesRowsOfAnyProject(a, p, id) ==
    IF id \in DOMAIN a.Files THEN 1 ELSE 0

\* SELECT ... FROM Files WHERE project_id=p AND ID=id: the number of rows.
FilesRows(a, p, id) ==
    IF id \in DOMAIN a.Files /\ a.Files[id] = p THEN 1 ELSE 0

\* fault 1, 2, 3: the query on Files, Datapoints, FileInformation fails in
\* the backend.  garbage is the content of the malloc'ed length field.
rlx_get_spectra_ret(a, err, p, id, fault, garbage) ==
    LET t == sqlite3_get_table(fault = 1, TRUE, FilesRows(a, p, id), 6)
        rows == t.rows + 1
        dp == rlx_get_datapoints(a, err, id, fault = 2, garbage)
        md == rlx_get_metadata(a, dp.error, id, fault = 3)
    IN  IF t.ret /= SQLITE_OK
        THEN [out |-> NullSpectra, error |-> t.ret, freed |-> TRUE]
        ELSE IF rows < 2
        THEN [out |-> NullSpectra, error |-> RLX_ERR_NON_EXIST_SPECTRA,
              freed |-> FALSE]
        ELSE IF t.cols /= 6
        THEN [out |-> NullSpectra, error |-> RLX_ERR_FMT, freed |-> FALSE]
        ELSE [out |-> [null |-> FALSE, id |-> id, project_id |-> p,
                       dpNull |-> dp.null, length |-> dp.length,
                       mdNull |-> md.null, metadata_count |-> md.length],
              error |-> md.error, freed |-> dp.freed \/ md.freed]

\* The allocations a returned spectrum, the k-th of its array, is made of.
SpectraAllocs(s, k) ==
    IF s.null THEN {}
    ELSE {Alloc("spectra", k, 0), Alloc("circuit", k, 0)}
         \cup (IF s.dpNull THEN {} ELSE {Alloc("datapoints", k, 0)})
         \cup (IF s.mdNull THEN {}
               ELSE {Alloc("metadata", k, 0)}
                    \cup {Alloc("key", k, i) : i \in 1..s.metadata_count}
                    \cup {Alloc("str", k, i) : i \in 1..s.metadata_count})

\* ------------------------------------------------- rlx_get_all_spectra
\* The loop of rlx_get_all_spectra from index i on: out[i] is loaded with
\* the index as its id.
RECURSIVE LoadAll(_, _, _, _, _, _)
LoadAll(a, err, p, i, length, garbage) ==
    IF i >= length THEN [spectra |-> <<>>, error |-> err, freed |-> FALSE]
    ELSE LET s == rlx_get_spectra_ret(a, err, p, i, 0, garbage)
             rest == LoadAll(a, s.error, p, i + 1, length, garbage)
         IN  [spectra |-> <<s.out>> \o rest.spectra, error |-> rest.error,
              freed |-> s.freed \/ rest.freed]

\* fault 1: the id query fails in the backend.
rlx_get_all_spectra_ret(a, err, p, fault, garbage) ==
    LET ids == rlx_get_spectra_ids_ret(a, err, p, fault)
        all == LoadAll(a, ids.error, p, 0, ids.length, garbage)
    IN  IF ids.null
        THEN [NullResult EXCEPT !.error = ids.error, !.freed = ids.freed]
        ELSE [NullResult EXCEPT
                 !.null = FALSE, !.error = all.error, !.freed = all.freed,
                 !.spectra = all.spectra,
                 !.allocs = {Alloc("spectra[]", 0, 0)}
                            \cup UNION {SpectraAllocs(all.spectra[k], k) :
                                           k \in 1..Len(all.spectra)}]

\* ---------------------------------------------- rlx_get_fit_parameters
\* The capacity of the output buffer at the start.
InitialOutSize == 8

\* One store out[outIndex] = ... into the buffer b, which is first grown
\* to newSize when it is full.  The realloc is the argument of an assert:
\* a build with NDEBUG does not evaluate it, and the buffer keeps its
\* capacity while outSize grows.  overrun: a store went past the capacity.
FitStore(b, newSize, ndebug) ==
    LET full == b.outIndex = b.outSize
        capacity == IF full /\ ~ndebug THEN newSize ELSE b.capacity
    IN  [outIndex |-> b.outIndex,
         outSize  |-> IF full THEN newSize ELSE b.outSize,
         capacity |-> capacity,
         overrun  |-> b.overrun \/ b.outIndex >= capacity]

\* The buffer after k rows were stored.
RECURSIVE FitFill(_, _)
FitFill(k, ndebug) ==
    IF k = 0
    THEN [outIndex |-> 0, outSize |-> InitialOutSize,
          capacity |-> InitialOutSize, overrun |-> FALSE]
    ELSE LET b == FitFill(k - 1, ndebug)
             w == FitStore(b, b.outSize * 2, ndebug)
         IN  [w EXCEPT !.outIndex = w.outIndex + 1]

\* The buffer after the NULL that ends the array was stored behind k rows.
FitEnd(k, ndebug) ==
    LET b == FitFill(k, ndebug)
    IN  FitStore(b, b.outSize + 1, ndebug)

\* The parameter structs of the first k rows and their names.
ParamAllocs(k) ==
    {Alloc("fitparam", 0, i) : i \in 1..k} \cup {Alloc("name", 0, i) : i \in 1..k}

\* fault 1: sqlite3_prepare_v2 fails; fault 2: sqlite3_step fails after
\* stepped rows were read.  ndebug: the library was compiled with NDEBUG.
rlx_get_fit_parameters_ret(a, err, id, fault, stepped, ndebug) ==
    LET n == RowsOf(a.Fitparameters, id)
        none == [NullResult EXCEPT !.written = TRUE, !.length = 0]
        b == FitEnd(n, ndebug)
    IN  IF fault = 1 THEN [none EXCEPT !.error = SQLITE_IOERR]
        ELSE IF fault = 2
        THEN [none EXCEPT !.error = SQLITE_IOERR, !.stmt = 1,
                          !.allocs = ParamAllocs(stepped),
                          !.overrun = FitFill(stepped, ndebug).overrun]
        ELSE [none EXCEPT !.null = FALSE, !.length = b.outIndex,
                          !.params = [i \in 1..b.outIndex |-> i],
                          !.error = SQLITE_OK,
                          !.overrun = b.overrun,
                          !.allocs = {Alloc("fitparams", 0, 0)} \cup ParamAllocs(n)]

\* ------------------------------------------------------------ release
\* rlx_project_free_array and rlx_fitparam_free_array walk to the NULL that
\* ends the array; every entry before it is a struct.
rlx_project_free_array(l) ==
    {Alloc("project", 0, i) : i \in 1..Len(l.ids)}
    \cup {Alloc("name", 0, i) : i \in 1..Len(l.ids)}
    \cup {Alloc("projects", 0, 0)}

rlx_fitparam_free_array(l) ==
    ParamAllocs(Len(l.params)) \cup {Alloc("fitparams", 0, 0)}

\* The release of an entry that frees its key only.
rlx_metadata_free_key_only(k, i) == <<Alloc("key", k, i)>>

\* The pointers rlx_metadata_free passes to free(), in order.
rlx_metadata_free(k, i) == <<Alloc("key", k, i), Alloc("str", k, i)>>

\* The frees of the entries 1..n of the metadata array of spectrum k.
RECURSIVE MetadataFrees(_, _)
MetadataFrees(k, n) ==
    IF n = 0 THEN <<>>
    ELSE MetadataFrees(k, n - 1) \o rlx_metadata_free(k, n)

\* The pointers rlx_spectra_free passes to free(), in order; free(NULL),
\* which does nothing, is left out.
rlx_spectra_free_calls(s, k) ==
    IF s.null THEN <<>>
    ELSE <<Alloc("circuit", k, 0)>>
         \o (IF s.dpNull THEN <<>> ELSE <<Alloc("datapoints", k, 0)>>)
         \o (IF s.mdNull THEN <<>>
             ELSE MetadataFrees(k, s.metadata_count)
                  \o <<Alloc("metadata", k, 0)>>)
         \o <<Alloc("spectra", k, 0)>>

\* The allocations rlx_spectra_free releases.
rlx_spectra_free(s, k) ==
    LET calls == rlx_spectra_free_calls(s, k)
    IN  {calls[i] : i \in 1..Len(calls)}

\* A sequence of frees releases a pointer that is not live, or one twice.
BadFree(calls, live) ==
    \E i \in 1..Len(calls) :
        \/ calls[i] \notin live
        \/ \E j \in 1..(i - 1) : calls[j] = calls[i]

\* rlx_spectra_free_array stops at the first NULL entry.
rlx_spectra_free_array(spectra) ==
    LET nulls == {k \in 1..Len(spectra) : spectra[k].null}
        stop == IF nulls = {} THEN Len(spectra) + 1
                ELSE CHOOSE k \in nulls : \A j \in nulls : k <= j
    IN  UNION {rlx_spectra_free(spectra[k], k) : k \in 1..(stop - 1)}
        \cup {Alloc("spectra[]", 0, 0)}

\* The three output arrays.
ArrayAllocs == {Alloc("re", 1, 0), Alloc("im", 1, 0), Alloc("omega", 1, 0)}

\* What the caller's release of the last result frees.  The arrays are
\* the caller's to free() after a return of 0; after an error there are,
\* by the contract, none.
Freed(l) ==
    CASE l.op = "rlx_get_projects" -> rlx_project_free_array(l)
      [] l.op = "rlx_get_spectra_ids" -> {Alloc("ids", 0, 0)}
      [] l.op = "rlx_get_spectra" ->
            rlx_spectra_free(l.spectra[1], 1)
            \cup (IF l.arrays.precision /= "none" /\ l.arrays.ret = 0
                  THEN ArrayAllocs ELSE {})
      [] l.op = "rlx_get_all_spectra" -> rlx_spectra_free_array(l.spectra)
      [] l.op = "rlx_get_fit_parameters" -> rlx_fitparam_free_array(l)
      [] OTHER -> {}

Loaders ==
    {"rlx_get_projects", "rlx_get_spectra_ids", "rlx_get_spectra",
     "rlx_get_all_spectra", "rlx_get_fit_parameters"}

\* ------------------------------------------------------------ actions
\* A loader returns o to the caller.  The error message of
\* sqlite3_get_table comes from sqlite3_malloc; free() of it is undefined,
\* and in a build of SQLite whose allocator is not plain malloc it aborts
\* the process: abort chooses that outcome.
Return(op, p, id, fault, o, abort) ==
    /\ abort => o.freed
    /\ IF abort
       THEN /\ handle' = "aborted"
            /\ last' = [NoCall EXCEPT !.op = "abort", !.project = p,
                                      !.id = id, !.fault = fault]
            /\ UNCHANGED <<error, heap, stmts>>
       ELSE /\ handle' = handle
            /\ error' = o.error
            /\ heap' = heap \cup o.allocs
            /\ stmts' = stmts + o.stmt
            /\ last' = [op |-> op, null |-> o.null, project |-> p, id |-> id,
                        fault |-> fault, written |-> o.written,
                        length |-> o.length, ids |-> o.ids,
                        spectra |-> o.spectra, params |-> o.params,
                        overrun |-> o.overrun, arrays |-> NoArrays,
                        released |-> "none", frees |-> 0,
                        badfree |-> FALSE]
    /\ UNCHANGED <<archive, errstr, dbOpen>>

rlx_get_projects(fault, abort) ==
    /\ handle = "valid" /\ Idle
    /\ Return("rlx_get_projects", 0, 0, fault,
              rlx_get_projects_ret(archive, error, fault), abort)

rlx_get_spectra_ids(p, fault, abort) ==
    /\ handle = "valid" /\ Idle
    /\ Return("rlx_get_spectra_ids", p, 0, fault,
              rlx_get_spectra_ids_ret(archive, error, p, fault), abort)

\* The content of garbage shows only when rlx_get_datapoints returns
\* without storing to the length field.
rlx_get_spectra(p, id, fault, garbage, abort) ==
    /\ handle = "valid" /\ Idle
    /\ garbage /= 0 => /\ fault \in {0, 3}
                       /\ FilesRows(archive, p, id) = 1
                       /\ RowsOf(archive.Datapoints, id) = 0
    /\ LET r == rlx_get_spectra_ret(archive, error, p, id, fault, garbage)
       IN  Return("rlx_get_spectra", p, id, fault,
                  [NullResult EXCEPT
                      !.null = r.out.null, !.error = r.error,
                      !.freed = r.freed,
                      !.spectra = IF r.out.null THEN <<>> ELSE <<r.out>>,
                      !.allocs = SpectraAllocs(r.out, 1)],
                  abort)

rlx_get_all_spectra(p, fault, garbage, abort) ==
    /\ handle = "valid" /\ Idle
    /\ garbage /= 0 => /\ fault = 0
                       /\ \E f \in DOMAIN archive.Datapoints :
                             archive.Datapoints[f] = 0
    /\ Return("rlx_get_all_spectra", p, 0, fault,
              rlx_get_all_spectra_ret(archive, error, p, fault, garbage), abort)

rlx_get_fit_parameters(p, id, fault, stepped, ndebug) ==
    /\ handle = "valid" /\ Idle
    /\ fault = 2 => stmts < MaxStmts /\ stepped <= RowsOf(archive.Fitparameters, id)
    /\ fault /= 2 => stepped = 0
    \* Whether assert is compiled in shows only when the buffer fills up.
    /\ ndebug => (IF fault = 2 THEN stepped
                  ELSE RowsOf(archive.Fitparameters, id)) >= InitialOutSize
    /\ Return("rlx_get_fit_parameters", p, id, fault,
              rlx_get_fit_parameters_ret(archive, error, id, fault, stepped,
                                         ndebug),
              FALSE)

\* ----------------------- rlx_get_float_arrays, rlx_get_double_arrays
\* The allocations the function returns with: fault k makes the k-th
\* malloc return NULL, and the function returns there.
ArraysLeft(fault) ==
    CASE fault = 0 -> ArrayAllocs
      [] fault = 1 -> {}
      [] fault = 2 -> {Alloc("re", 1, 0)}
      [] fault = 3 -> {Alloc("re", 1, 0), Alloc("im", 1, 0)}

\* Both functions, which differ in the element type only.  The copy loop
\* reads spectra->datapoints[i] for i < spectra->length: with datapoints
\* NULL and a length that is not 0 the process is killed.
rlx_get_arrays(precision, fault) ==
    /\ handle = "valid"
    /\ last.op = "rlx_get_spectra" /\ ~last.null
    /\ last.arrays.precision = "none"
    /\ LET spectra == last.spectra[1]
       IN  IF fault = 0 /\ spectra.dpNull /\ spectra.length > 0
           THEN /\ handle' = "aborted"
                /\ last' = [NoCall EXCEPT !.op = "abort", !.fault = fault]
                /\ UNCHANGED heap
           ELSE /\ handle' = handle
                /\ heap' = heap \cup ArraysLeft(fault)
                /\ last' = [last EXCEPT !.arrays =
                               [precision |-> precision,
                                ret |-> IF fault = 0 THEN 0 ELSE RLX_ERR_OOM,
                                fault |-> fault,
                                copied |-> IF fault = 0 THEN spectra.length
                                           ELSE 0]]
    /\ UNCHANGED <<archive, error, errstr, dbOpen, stmts>>

rlx_get_float_arrays(fault) == rlx_get_arrays("float", fault)

rlx_get_double_arrays(fault) == rlx_get_arrays("double", fault)

\* The caller releases the result of the last call with the function that
\* matches it.
Release ==
    /\ handle = "valid"
    /\ last.op \in Loaders /\ ~last.null
    /\ heap' = heap \ Freed(last)
    /\ last' = IF last.op = "rlx_get_spectra"
               THEN LET calls == rlx_spectra_free_calls(last.spectra[1], 1)
                    IN  [NoCall EXCEPT
                            !.op = "free", !.released = last.op,
                            !.frees = Len(calls),
                            !.badfree = BadFree(calls, heap)]
               ELSE [NoCall EXCEPT !.op = "free", !.released = last.op]
    /\ UNCHANGED <<archive, handle, error, errstr, dbOpen, stmts>>

Init ==
    /\ archive \in Archives
    /\ handle = "none"
    /\ error = 0
    /\ errstr = "unset"
    /\ dbOpen = FALSE
    /\ stmts = 0
    /\ heap = {}
    /\ last = NoCall

Next ==
    \/ \E fault \in 0..2 : rlx_open_file(fault)
    \/ rlx_close_file
    \/ \E fault \in 0..2, abort \in BOOLEAN : rlx_get_projects(fault, abort)
    \/ \E p \in ProjectIds, fault \in 0..1, abort \in BOOLEAN :
           rlx_get_spectra_ids(p, fault, abort)
    \/ \E p \in ProjectIds, id \in SpectraIds, fault \in 0..3,
          garbage \in 0..MaxRows, abort \in BOOLEAN :
           rlx_get_spectra(p, id, fault, garbage, abort)
    \/ \E p \in ProjectIds, fault \in 0..1, garbage \in 0..MaxRows,
          abort \in BOOLEAN :
           rlx_get_all_spectra(p, fault, garbage, abort)
    \/ \E p \in ProjectIds, id \in SpectraIds, fault \in 0..2,
          stepped \in 0..MaxRows, ndebug \in BOOLEAN :
           rlx_get_fit_parameters(p, id, fault, stepped, ndebug)
    \/ \E fault \in 0..3 : rlx_get_float_arrays(fault)
    \/ \E fault \in 0..3 : rlx_get_double_arrays(fault)
    \/ Release

Spec == Init /\ [][Next]_vars

\* Archives of the newest format in which every spectrum has MaxRows rows
\* in each per-spectrum table: they differ in Projects and Files only.
PopulatedArchives ==
    {a \in AcceptedArchives :
        /\ a.Properties = <<2>>
        /\ \A f \in DOMAIN a.Files :
              /\ a.Datapoints[f] = MaxRows
              /\ a.FileInformation[f] = MaxRows
              /\ a.Fitparameters[f] = MaxRows}

InitFiles ==
    /\ archive \in PopulatedArchives
    /\ handle = "none"
    /\ error = 0
    /\ errstr = "unset"
    /\ dbOpen = FALSE
    /\ stmts = 0
    /\ heap = {}
    /\ last = NoCall

\* The same operations on the populated archives.
SpecFiles == InitFiles /\ [][Next]_vars

\* A session that lists the spectra of projects, loads single spectra,
\* converts and releases them.
NextLookup ==
    \/ \E fault \in 0..2 : rlx_open_file(fault)
    \/ rlx_close_file
    \/ \E p \in ProjectIds, fault \in 0..1, abort \in BOOLEAN :
           rlx_get_spectra_ids(p, fault, abort)
    \/ \E p \in ProjectIds, id \in SpectraIds, fault \in 0..3,
          garbage \in 0..MaxRows, abort \in BOOLEAN :
           rlx_get_spectra(p, id, fault, garbage, abort)
    \/ \E fault \in 0..3 : rlx_get_float_arrays(fault)
    \/ \E fault \in 0..3 : rlx_get_double_arrays(fault)
    \/ Release

SpecLookup == InitFiles /\ [][NextLookup]_vars

\* Archives of one project with one spectrum that has up to MaxFitRows
\* rows in Fitparameters.
FitArchives ==
    {[MkArchive(TRUE, <<2>>, 1, <<1>>, MaxRows, MaxRows, 0)
         EXCEPT !.Fitparameters = <<fp>>] : fp \in 0..MaxFitRows}

InitFit ==
    /\ archive \in FitArchives
    /\ handle = "none"
    /\ error = 0
    /\ errstr = "unset"
    /\ dbOpen = FALSE
    /\ stmts = 0
    /\ heap = {}
    /\ last = NoCall

\* The same operations on the archives with many fit parameters.
SpecFit == InitFit /\ [][Next]_vars

\* ------------------------------------------------- metadata key mapping
\* The members of enum rlx_metadata_field that name a field.
DefinedFields ==
    {"RLX_FIELD_TEMPERATURE",
     "RLX_FIELD_DC_VOLTAGE",
     "RLX_FIELD_AC_VOLTAGE",
     "RLX_FIELD_CURRENT",
     "RLX_FIELD_TIME",
     "RLX_FIELD_HARMONIC",
     "RLX_FIELD_CONCENTRATION",
     "RLX_FIELD_FREE_VARIABLE_ONE",
     "RLX_FIELD_FREE_VARIABLE_TWO",
     "RLX_FIELD_AREA",
     "RLX_FIELD_THICKNESS",
     "RLX_FIELD_SOC",
     "RLX_FIELD_SOH",
     "RLX_FIELD_PRESSURE"}

MetadataFields == DefinedFields \cup {"RLX_FIELD_UNKOWN"}

\* The mapping with the key of the first free variable given to the
\* second too.
rlx_metadata_get_key_duplicate(field) ==
    CASE field = "RLX_FIELD_TEMPERATURE" -> "Temperature"
      [] field = "RLX_FIELD_DC_VOLTAGE" -> "DCVoltage"
      [] field = "RLX_FIELD_AC_VOLTAGE" -> "ACVoltage"
      [] field = "RLX_FIELD_CURRENT" -> "Current"
      [] field = "RLX_FIELD_TIME" -> "Time"
      [] field = "RLX_FIELD_HARMONIC" -> "Harmonic"
      [] field = "RLX_FIELD_CONCENTRATION" -> "Concentration"
      [] field = "RLX_FIELD_FREE_VARIABLE_ONE" -> "FreeVariable"
      [] field = "RLX_FIELD_FREE_VARIABLE_TWO" -> "FreeVariable"
      [] field = "RLX_FIELD_AREA" -> "Area"
      [] field = "RLX_FIELD_THICKNESS" -> "Thickness"
      [] field = "RLX_FIELD_SOC" -> "SOC"
      [] field = "RLX_FIELD_SOH" -> "SOH"
      [] field = "RLX_FIELD_PRESSURE" -> "Pressure"
      [] OTHER -> "Unkown"

\* The switch of rlx_metadata_get_key.
rlx_metadata_get_key(field) ==
    CASE field = "RLX_FIELD_TEMPERATURE" -> "Temperature"
      [] field = "RLX_FIELD_DC_VOLTAGE" -> "DCVoltage"
      [] field = "RLX_FIELD_AC_VOLTAGE" -> "ACVoltage"
      [] field = "RLX_FIELD_CURRENT" -> "Current"
      [] field = "RLX_FIELD_TIME" -> "Time"
      [] field = "RLX_FIELD_HARMONIC" -> "Harmonic"
      [] field = "RLX_FIELD_CONCENTRATION" -> "Concentration"
      [] field = "RLX_FIELD_FREE_VARIABLE_ONE" -> "FreeVariable"
      [] field = "RLX_FIELD_FREE_VARIABLE_TWO" -> "FreeVariable2"
      [] field = "RLX_FIELD_AREA" -> "Area"
      [] field = "RLX_FIELD_THICKNESS" -> "Thickness"
      [] field = "RLX_FIELD_SOC" -> "SOC"
      [] field = "RLX_FIELD_SOH" -> "SOH"
      [] field = "RLX_FIELD_PRESSURE" -> "Pressure"
      [] OTHER -> "Unkown"

\* The chain of strcmp of rlx_metadata_get_enum, in its order; strcmp is 0
\* for equal strings only.
rlx_metadata_get_enum(key) ==
    IF key = rlx_metadata_get_key("RLX_FIELD_TEMPERATURE")
    THEN "RLX_FIELD_TEMPERATURE"
    ELSE IF key = rlx_metadata_get_key("RLX_FIELD_DC_VOLTAGE")
    THEN "RLX_FIELD_DC_VOLTAGE"
    ELSE IF key = rlx_metadata_get_key("RLX_FIELD_AC_VOLTAGE")
    THEN "RLX_FIELD_AC_VOLTAGE"
    ELSE IF key = rlx_metadata_get_key("RLX_FIELD_CURRENT")
    THEN "RLX_FIELD_CURRENT"
    ELSE IF key = rlx_metadata_get_key("RLX_FIELD_TIME")
    THEN "RLX_FIELD_TIME"
    ELSE IF key = rlx_metadata_get_key("RLX_FIELD_HARMONIC")
    THEN "RLX_FIELD_HARMONIC"
    ELSE IF key = rlx_metadata_get_key("RLX_FIELD_CONCENTRATION")
    THEN "RLX_FIELD_CONCENTRATION"
    ELSE IF key = rlx_metadata_get_key("RLX_FIELD_FREE_VARIABLE_ONE")
    THEN "RLX_FIELD_FREE_VARIABLE_ONE"
    ELSE IF key = rlx_metadata_get_key("RLX_FIELD_FREE_VARIABLE_TWO")
    THEN "RLX_FIELD_FREE_VARIABLE_TWO"
    ELSE IF key = rlx_metadata_get_key("RLX_FIELD_AREA")
    THEN "RLX_FIELD_AREA"
    ELSE IF key = rlx_metadata_get_key("RLX_FIELD_THICKNESS")
    THEN "RLX_FIELD_THICKNESS"
    ELSE IF key = rlx_metadata_get_key("RLX_FIELD_SOC")
    THEN "RLX_FIELD_SOC"
    ELSE IF key = rlx_metadata_get_key("RLX_FIELD_SOH")
    THEN "RLX_FIELD_SOH"
    ELSE IF key = rlx_metadata_get_key("RLX_FIELD_PRESSURE")
    THEN "RLX_FIELD_PRESSURE"
    ELSE IF key = rlx_metadata_get_key("RLX_FIELD_PRESSURE")
    THEN "RLX_FIELD_PRESSURE"
    ELSE "RLX_FIELD_UNKOWN"

\* What a caller of the two functions holds: the field last passed to
\* rlx_metadata_get_key and the key returned, the string last passed to
\* rlx_metadata_get_enum and the member returned.
NoKeyCall == [op |-> "none", field |-> "", key |-> "", arg |-> "", tag |-> ""]

\* Strings that are no key: the empty string, keys in another case, with
\* a character more or less, and the name of the unknown member.
StrangeKeys ==
    {"", "temperature", "Temperature ", "DCVoltag", "FreeVariable1",
     "FreeVariable22", "Pressure2", "soc", "Unkown", "Unknown"}

KeyCall(field) ==
    /\ last' = [last EXCEPT !.op = "rlx_metadata_get_key", !.field = field,
                            !.key = rlx_metadata_get_key(field)]
    /\ UNCHANGED <<archive, handle, error, errstr, dbOpen, stmts, heap>>

EnumCall(key) ==
    /\ last' = [last EXCEPT !.op = "rlx_metadata_get_enum", !.arg = key,
                            !.tag = rlx_metadata_get_enum(key)]
    /\ UNCHANGED <<archive, handle, error, errstr, dbOpen, stmts, heap>>

\* The key just returned is passed back.
EnumOfKeyCall ==
    /\ last.op = "rlx_metadata_get_key"
    /\ EnumCall(last.key)

InitKeys ==
    /\ archive = MkArchive(FALSE, <<>>, 0, <<>>, 0, 0, 0)
    /\ handle = "none"
    /\ error = 0
    /\ errstr = "unset"
    /\ dbOpen = FALSE
    /\ stmts = 0
    /\ heap = {}
    /\ last = NoKeyCall

NextKeys ==
    \/ \E field \in MetadataFields : KeyCall(field)
    \/ \E key \in StrangeKeys : EnumCall(key)
    \/ EnumOfKeyCall

\* The two mapping functions, called in any order on any input.
SpecKeys == InitKeys /\ [][NextKeys]_vars

\* ------------------------------------------------------------- claims
\* The Files rows of project p.
RowsOfProject(p) == {f \in DOMAIN archive.Files : archive.Files[f] = p}

\* The format gate accepts the archive.
Recognized ==
    archive.hasProperties /\ archive.Properties \in {<<1>>, <<2>>}

\* C1: with a working backend, rlx_open_file returns an error-free handle
\* (error field 0, *error NULL) for every archive whose DatabaseFormat is 1
\* or 2, and for every other archive (a missing row included) returns NULL
\* with the handle memory freed and the connection closed.
C1_OpenGatesOnVersion ==
    (last.op = "open" /\ last.fault = 0 /\ archive.hasProperties) =>
        /\ Recognized =>
              handle = "valid" /\ error = RLX_ERR_SUCESS /\ errstr = "NULL"
        /\ ~Recognized =>
              handle = "null" /\ heap = {} /\ ~dbOpen

\* C2: rlx_get_spectra never returns a spectrum whose datapoints are
\* absent, and when it returns NULL nothing it allocated is left.
C2_SpectraAllOrNothing ==
    last.op = "rlx_get_spectra" =>
        /\ ~last.null => ~last.spectra[1].dpNull
        /\ last.null => heap \subseteq FileAllocs

\* The last call returned a complete result: an array or a spectrum with
\* nothing absent in it.
Complete(s) == ~s.null /\ ~s.dpNull /\ ~s.mdNull

Succeeded ==
    /\ last.op \in Loaders
    /\ ~last.null
    /\ \A k \in 1..Len(last.spectra) : Complete(last.spectra[k])

\* C3: when the most recent loader call succeeded, rlx_get_errnum is
\* RLX_ERR_SUCESS, whatever failed before it on the handle.
C3_SuccessClearsError ==
    Succeeded => error = RLX_ERR_SUCESS

\* C4: no prepared statement is left unfinalized when rlx_open_file or
\* rlx_get_fit_parameters has returned, on whichever path.
C4_StatementsFinalized ==
    last.op \in {"open", "rlx_get_fit_parameters"} => stmts = 0

\* A load inside the last call failed: a spectrum is missing or has no
\* datapoints.
LoadFailed ==
    \/ last.null
    \/ \E k \in 1..Len(last.spectra) :
          last.spectra[k].null \/ last.spectra[k].dpNull

\* C5: a loader in which anything failed returns NULL, and when a loader
\* returns NULL the error field holds the non-zero code of the failure.
C5_FailureIsNullWithCode ==
    last.op \in Loaders =>
        /\ LoadFailed => last.null
        /\ last.null =>
              error \in {SQLITE_ERROR, SQLITE_IOERR, RLX_ERR_NO_ENT,
                         RLX_ERR_NON_EXIST_SPECTRA, RLX_ERR_OOM, RLX_ERR_FMT}

\* C6: rlx_get_projects on an archive with no Projects row returns the
\* empty array with count 0, and returns NULL only on a failed query or
\* allocation.
C6_NoProjectsIsEmptySuccess ==
    last.op = "rlx_get_projects" =>
        /\ (last.fault = 0 /\ archive.Projects = {}) =>
              ~last.null /\ last.written /\ last.length = 0 /\ last.ids = <<>>
        /\ last.null => last.fault /= 0

\* C7: a spectrum with no FileInformation row, or of an archive without
\* that table, is loaded with metadata_count 0 and the load leaves the
\* error field as it found it.
C7_MissingMetadataIsNoError ==
    [][(/\ last'.op = "rlx_get_spectra"
        /\ last' /= last
        /\ last'.fault = 0
        /\ ~last'.null
        /\ ~last'.spectra[1].dpNull
        /\ RowsOf(archive.FileInformation, last'.id) = 0)
       => (last'.spectra[1].metadata_count = 0 /\ error' = error)]_vars

\* C8: a spectrum whose Files row exists and that has no Datapoints row
\* fails to load with RLX_ERR_NO_ENT; RLX_ERR_FMT is for a datapoint result
\* of another shape than three columns.
C8_NoDatapointsIsNoEnt ==
    (/\ last.op = "rlx_get_spectra"
     /\ last.fault = 0
     /\ FilesRows(archive, last.project, last.id) = 1
     /\ RowsOf(archive.Datapoints, last.id) = 0)
    => (last.null /\ error = RLX_ERR_NO_ENT)

\* C9: the ids rlx_get_spectra_ids returns for project p are exactly the
\* ids of the Files rows of p, each once, and the count it stores is their
\* number.
C9_IdsOfProjectOnly ==
    last.op = "rlx_get_spectra_ids" =>
        /\ \A i \in 1..Len(last.ids) : last.ids[i] \in RowsOfProject(last.project)
        /\ ~last.null =>
              /\ Len(last.ids) = last.length
              /\ last.length = Cardinality(RowsOfProject(last.project))
              /\ {last.ids[i] : i \in 1..Len(last.ids)} = RowsOfProject(last.project)
        /\ last.fault = 0 =>
              last.length = Cardinality(RowsOfProject(last.project))

\* Ids of a project were returned from an archive that has spectra of
\* another project too.
C9_Witness ==
    /\ last.op = "rlx_get_spectra_ids"
    /\ ~last.null
    /\ last.length >= 1
    /\ \E f \in DOMAIN archive.Files : archive.Files[f] /= last.project

\* C10: rlx_get_spectra_ids on a project without Files rows returns NULL,
\* stores 0 to *length and records RLX_ERR_NO_ENT; it never records
\* RLX_ERR_FMT for an empty or a one-column result.
C10_EmptyProjectIsNoEnt ==
    last.op = "rlx_get_spectra_ids" =>
        /\ (last.fault = 0 /\ RowsOfProject(last.project) = {}) =>
              /\ last.null
              /\ last.written /\ last.length = 0
              /\ error = RLX_ERR_NO_ENT
        /\ last.null => last.written /\ last.length = 0
        /\ (last.null /\ last.fault = 0) => error /= RLX_ERR_FMT

\* The ids of a project without spectra were asked for in an archive that
\* has spectra.
C10_Witness ==
    /\ last.op = "rlx_get_spectra_ids"
    /\ last.fault = 0
    /\ RowsOfProject(last.project) = {}
    /\ archive.Files /= <<>>
    /\ last.null /\ error = RLX_ERR_NO_ENT

\* C11: when the Files query works and no row has both the project's id
\* and the spectrum id (a spectrum of another project included),
\* rlx_get_spectra returns NULL and records RLX_ERR_NON_EXIST_SPECTRA,
\* never RLX_ERR_FMT; a spectrum it returns carries the id and the project
\* id it was asked for.
C11_NoRowIsNonExistSpectra ==
    last.op = "rlx_get_spectra" =>
        /\ (last.fault /= 1 /\ last.id \notin RowsOfProject(last.project)) =>
              last.null /\ error = RLX_ERR_NON_EXIST_SPECTRA
        /\ (last.null /\ last.fault /= 1) => error /= RLX_ERR_FMT
        /\ ~last.null =>
              /\ last.spectra[1].id = last.id
              /\ last.spectra[1].project_id = last.project
              /\ last.id \in RowsOfProject(last.project)

\* A spectrum that exists under another project was asked for and was
\* reported as nonexistent.
C11_Witness ==
    /\ last.op = "rlx_get_spectra"
    /\ last.fault = 0
    /\ last.id \in DOMAIN archive.Files
    /\ archive.Files[last.id] /= last.project
    /\ last.null /\ error = RLX_ERR_NON_EXIST_SPECTRA

\* C12: when the backend works, rlx_get_fit_parameters returns for a
\* spectrum with n Fitparameters rows, whatever n is, an array of the n
\* rows in cursor order ended by NULL, stores n to *length and leaves no
\* error on the handle, and no store it makes goes past the end of the
\* buffer.
C12_FitParametersTerminated ==
    (last.op = "rlx_get_fit_parameters" /\ last.fault = 0) =>
        /\ ~last.null
        /\ last.params = [i \in 1..RowsOf(archive.Fitparameters, last.id) |-> i]
        /\ last.written
        /\ last.length = RowsOf(archive.Fitparameters, last.id)
        /\ error = RLX_ERR_SUCESS
        /\ ~last.overrun

\* C13: rlx_get_float_arrays and rlx_get_double_arrays return with all
\* three arrays allocated or with none: after a return of RLX_ERR_OOM no
\* array of the call is allocated, and after a return of 0 all three are
\* and hold the length datapoints of the spectrum.
C13_ArraysAllOrNone ==
    last.arrays.precision /= "none" =>
        /\ last.arrays.ret \in {0, RLX_ERR_OOM}
        /\ last.arrays.ret = RLX_ERR_OOM => heap \cap ArrayAllocs = {}
        /\ last.arrays.ret = 0 =>
              /\ ArrayAllocs \subseteq heap
              /\ last.arrays.copied = last.spectra[1].length

\* C14: when the id listing works and yields n ids, the array
\* rlx_get_all_spectra returns holds n spectra, none of them NULL, the
\* i-th being the spectrum with the i-th listed id of the project.
C14_AllSpectraOfProject ==
    (last.op = "rlx_get_all_spectra" /\ ~last.null) =>
        LET ids == FilesOfProject(archive, last.project)
        IN  /\ Len(last.spectra) = Len(ids)
            /\ \A i \in 1..Len(last.spectra) :
                  /\ ~last.spectra[i].null
                  /\ last.spectra[i].id = ids[i]
                  /\ last.spectra[i].project_id = last.project

\* The caller has released a spectrum that rlx_get_spectra returned.
SpectraReleased ==
    /\ last.op = "free"
    /\ last.released = "rlx_get_spectra"

\* C15: after rlx_spectra_free of a spectrum that rlx_get_spectra
\* returned, with or without datapoints and metadata, no allocation of
\* the spectrum is live (what is live is the handle and the arrays made
\* from the spectrum), and every pointer the release passed to free() was
\* live and was passed once.
C15_SpectraFreeRoundTrip ==
    SpectraReleased =>
        /\ heap \subseteq FileAllocs \cup ArrayAllocs
        /\ ~last.badfree

\* A spectrum with datapoints and a metadata entry was released: the
\* record, the circuit string, the datapoints, the metadata array and a
\* key and a value were freed.
C15_Witness ==
    /\ SpectraReleased
    /\ last.frees >= 6
    /\ heap \subseteq FileAllocs
    /\ ~last.badfree

\* The keys of the members that name a field.
CanonicalKeys == {rlx_metadata_get_key(f) : f \in DefinedFields}

\* C16: rlx_metadata_get_key gives every member a key, and the members
\* that name a field pairwise different keys, none of them the key of the
\* unknown member; rlx_metadata_get_enum maps the key of such a member
\* back to the member and every string that is no such key to
\* RLX_FIELD_UNKOWN.
C16_KeyEnumRoundTrip ==
    /\ Cardinality(CanonicalKeys) = Cardinality(DefinedFields)
    /\ last.field /= "" =>
          /\ last.key /= ""
          /\ last.field \in DefinedFields <=>
                last.key /= rlx_metadata_get_key("RLX_FIELD_UNKOWN")
    /\ last.tag /= "" =>
          /\ last.tag \in MetadataFields
          /\ last.arg \notin CanonicalKeys => last.tag = "RLX_FIELD_UNKOWN"
          /\ (last.field \in DefinedFields /\ last.arg = last.key) =>
                last.tag = last.field

\* The key of the second free variable, of which the key of the first is
\* a prefix, was mapped back to its member.
C16_Witness ==
    /\ last.op = "rlx_metadata_get_enum"
    /\ last.field = "RLX_FIELD_FREE_VARIABLE_TWO"
    /\ last.arg = last.key
    /\ last.tag = last.field

\* C17: when rlx_get_projects, rlx_get_spectra_ids or
\* rlx_get_fit_parameters returns NULL, it has stored 0 to *length,
\* whatever made it fail.
C17_NullStoresZeroLength ==
    (/\ last.op \in {"rlx_get_projects", "rlx_get_spectra_ids",
                     "rlx_get_fit_parameters"}
     /\ last.null)
    => (last.written /\ last.length = 0)
====
